---- MODULE Spec2Model ----
(***************************************************************************)
(* loopy-dns: a UDP DNS responder that answers every A query with          *)
(* 127.0.0.1 and every AAAA query with ::1, optionally restricted to a     *)
(* zone (dns/server.go).                                                   *)
(*                                                                         *)
(* Strings are sequences of one-character strings, so that                 *)
(* strings.HasSuffix and strings.Split are computed, not assumed.          *)
(* A domain name (dnsmessage.Name) read from the wire is a sequence of     *)
(* labels; Name.String() renders it with a "." after every label.          *)
(***************************************************************************)
EXTENDS Integers, Sequences, FiniteSets, TLC

\* ------------------------------------------------------------------ bounds
MaxNameLen == 6
MaxZoneLen == 4
MaxNameLabels == 3
MaxZoneLabels == 2
MaxQuestions == 2
MaxDatagrams == 2
MaxReadErrors == 1

\* ------------------------------------------------------- strings (Go stdlib)
Dot == "."
LabelChars == {"t", "z"}
Chars == LabelChars \cup {Dot}

RECURSIVE StringsUpTo(_)
StringsUpTo(n) ==
    IF n = 0 THEN {<<>>}
    ELSE LET shorter == StringsUpTo(n - 1)
         IN  shorter \cup {Append(s, c) : s \in {x \in shorter : Len(x) = n - 1}, c \in Chars}

\* strings.HasSuffix(s, ".")
HasDotSuffix(s) == Len(s) >= 1 /\ s[Len(s)] = Dot

\* strings.Split(s, "."): the parts between the separators; k separators
\* give k+1 parts, empty parts included.
RECURSIVE SplitFrom(_, _, _)
SplitFrom(s, i, cur) ==
    IF i > Len(s) THEN <<cur>>
    ELSE IF s[i] = Dot THEN <<cur>> \o SplitFrom(s, i + 1, <<>>)
    ELSE SplitFrom(s, i + 1, Append(cur, s[i]))

Split(s) == SplitFrom(s, 1, <<>>)

\* ---------------------------------------------------------- isDomainInZone
\* The loop of isDomainInZone: i and j walk nameParts and zoneParts from the
\* right (1-based here) and stop as soon as either is exhausted.
RECURSIVE PartsMatchFrom(_, _, _, _)
PartsMatchFrom(nameParts, zoneParts, i, j) ==
    IF i >= 1 /\ j >= 1
    THEN IF nameParts[i] # zoneParts[j] THEN FALSE
         ELSE PartsMatchFrom(nameParts, zoneParts, i - 1, j - 1)
    ELSE TRUE

\* faulty variant: the walk starts at the left end of both part lists
PartsMatchLeftAligned(nameParts, zoneParts) ==
    \A k \in 1..Len(zoneParts) : k <= Len(nameParts) => nameParts[k] = zoneParts[k]

PartsMatch(nameParts, zoneParts) ==
    PartsMatchFrom(nameParts, zoneParts, Len(nameParts), Len(zoneParts))

\* Only the name is given a trailing "."; the zone is split as it is.
NormalizeName(name) == IF HasDotSuffix(name) THEN name ELSE name \o <<Dot>>

isDomainInZone(name, zone) ==
    PartsMatch(Split(NormalizeName(name)), Split(zone))

\* ------------------------------------------------------------ DNS messages
\* dnsmessage.Name as read from the wire: a sequence of non-empty labels.
RECURSIVE LabelSeqsUpTo(_)
LabelSeqsUpTo(n) ==
    IF n = 0 THEN {<<>>}
    ELSE LET shorter == LabelSeqsUpTo(n - 1)
         IN  shorter \cup {<<<<c>>>> \o s : s \in {x \in shorter : Len(x) = n - 1}, c \in LabelChars}

\* Name.String(): every label followed by ".", the root name is ".".
RECURSIVE JoinLabels(_)
JoinLabels(labels) ==
    IF labels = <<>> THEN <<>>
    ELSE Head(labels) \o <<Dot>> \o JoinLabels(Tail(labels))

NameString(labels) == IF labels = <<>> THEN <<Dot>> ELSE JoinLabels(labels)

TypeA == "A"
TypeAAAA == "AAAA"
TypeMX == "MX"
QTypes == {TypeA, TypeAAAA, TypeMX}
ClassINET == "INET"
ClassCHAOS == "CHAOS"
QClasses == {ClassINET, ClassCHAOS}
RCodeSuccess == "Success"
RCodeNameError == "NameError"
RCodeNotImplemented == "NotImplemented"
TTL == 300

\* net.IPv4(a, b, c, d): the 16-byte IPv4-in-IPv6 form.
v4InV6Prefix == <<0, 0, 0, 0, 0, 0, 0, 0, 0, 0, 255, 255>>
IPv4(a, b, c, d) == v4InV6Prefix \o <<a, b, c, d>>
\* ip.To4(): the 4-byte form, or nil
To4(ip) ==
    IF Len(ip) = 4 THEN ip
    ELSE IF Len(ip) = 16 /\ SubSeq(ip, 1, 12) = v4InV6Prefix THEN SubSeq(ip, 13, 16)
    ELSE <<>>
\* net.ParseIP("::1")
ParseIPLoopback6 == [k \in 1..16 |-> IF k = 16 THEN 1 ELSE 0]
\* copy(dst[:], src) into a zeroed array of n bytes
CopyInto(n, src) == [k \in 1..n |-> IF k <= Len(src) THEN src[k] ELSE 0]

\* faulty variant: the 16-byte form is copied without To4()
ipV4ToAResourceNoTo4(ip) == CopyInto(4, ip)

ipV4ToAResource(ip) == CopyInto(4, To4(ip))

\* faulty variant: only the first four bytes are copied
ipV6ToAAAAResourceShort(ip) == CopyInto(16, SubSeq(ip, 1, 4))

ipV6ToAAAAResource(ip) == CopyInto(16, ip)

\* faulty variant: the TTL field is left at its zero value
ResourceHeaderNoTTL(name, type) == [Name |-> name, Type |-> type, Class |-> ClassINET, TTL |-> 0]
ResourceHeader(name, type) == [Name |-> name, Type |-> type, Class |-> ClassINET, TTL |-> TTL]

\* ---------------------------------------------------------- answerQuestion
\* The RCode left in the response header and the records the returned
\* closure adds to the answer section.
\* faulty variant: the default case leaves RCodeSuccess in the header
typeDispatchDefaultSuccess(q) ==
    CASE q.Type = TypeA ->
             [RCode |-> RCodeSuccess,
              Answers |-> <<[Header |-> ResourceHeader(q.Name, TypeA),
                             Body |-> ipV4ToAResource(IPv4(127, 0, 0, 1))]>>]
      [] q.Type = TypeAAAA ->
             [RCode |-> RCodeSuccess,
              Answers |-> <<[Header |-> ResourceHeader(q.Name, TypeAAAA),
                             Body |-> ipV6ToAAAAResource(ParseIPLoopback6)]>>]
      [] OTHER ->
             [RCode |-> RCodeSuccess, Answers |-> <<>>]

\* switch q.Type
typeDispatch(q) ==
    CASE q.Type = TypeA ->
             [RCode |-> RCodeSuccess,
              Answers |-> <<[Header |-> ResourceHeader(q.Name, TypeA),
                             Body |-> ipV4ToAResource(IPv4(127, 0, 0, 1))]>>]
      [] q.Type = TypeAAAA ->
             [RCode |-> RCodeSuccess,
              Answers |-> <<[Header |-> ResourceHeader(q.Name, TypeAAAA),
                             Body |-> ipV6ToAAAAResource(ParseIPLoopback6)]>>]
      [] OTHER ->
             [RCode |-> RCodeNotImplemented, Answers |-> <<>>]

answerQuestion(zone, q) ==
    IF zone # <<>> /\ ~isDomainInZone(NameString(q.Name), zone)
    THEN [RCode |-> RCodeNameError, Answers |-> <<>>]
    ELSE typeDispatch(q)

\* ----------------------------------------------------------- buildResponse
\* Builder.Question / AResource / AAAAResource pack the name and fail on an
\* empty label (a name read from the wire has none).
NamePacks(labels) == \A k \in 1..Len(labels) : labels[k] # <<>>

\* faulty variant: the header is the query's header with the response bit
\* and the RCode set
responseHeaderFromQuery(queryHeader, rcode) ==
    [ID |-> queryHeader.ID,
     Response |-> TRUE,
     OpCode |-> queryHeader.OpCode,
     Authoritative |-> TRUE,
     Truncated |-> FALSE,
     RecursionDesired |-> queryHeader.RecursionDesired,
     RecursionAvailable |-> FALSE,
     RCode |-> rcode]

responseHeader(queryHeader, rcode) ==
    [ID |-> queryHeader.ID,
     Response |-> TRUE,
     OpCode |-> 0,
     Authoritative |-> TRUE,
     Truncated |-> FALSE,
     RecursionDesired |-> queryHeader.RecursionDesired,
     RecursionAvailable |-> FALSE,
     RCode |-> rcode]

buildResponse(zone, queryHeader, q) ==
    LET ans == answerQuestion(zone, q)
    IN  IF ~NamePacks(q.Name)
        THEN [err |-> "build", msg |-> <<>>]
        ELSE [err |-> "none",
              msg |-> <<[Header |-> responseHeader(queryHeader, ans.RCode),
                         Questions |-> <<q>>,
                         Answers |-> ans.Answers]>>]

\* ------------------------------------------------------------- handleQuery
\* A datagram: whether its first 12 bytes decode as a header, the header
\* fields, the question count the header declares and the questions that
\* are complete in the body.
\* faulty variant: a message marked as a response is refused
ParserStartQueriesOnly(d) ==
    IF d.hdrOK /\ ~d.Header.Response THEN [err |-> "none", header |-> <<d.Header>>]
    ELSE [err |-> "header", header |-> <<>>]

\* Parser.Start
ParserStart(d) ==
    IF d.hdrOK THEN [err |-> "none", header |-> <<d.Header>>]
    ELSE [err |-> "header", header |-> <<>>]

\* Parser.Question: ErrSectionDone when the header declares no question,
\* an unpack error when the first question is not complete in the body;
\* otherwise the first question, whatever follows it.
ParserQuestion(d) ==
    IF d.QDCount = 0 \/ Len(d.Questions) = 0
    THEN [err |-> "question", q |-> <<>>]
    ELSE [err |-> "none", q |-> <<d.Questions[1]>>]

\* handleQuery up to the write: the error it returns, or the response bytes
\* it is about to write.
handleQueryBuild(zone, d) ==
    LET h == ParserStart(d)
    IN  IF h.err # "none" THEN [err |-> h.err, msg |-> <<>>]
        ELSE LET pq == ParserQuestion(d)
             IN  IF pq.err # "none" THEN [err |-> pq.err, msg |-> <<>>]
                 ELSE buildResponse(zone, h.header[1], pq.q[1])

\* ------------------------------------------------------------ server state
VARIABLES
    zone,        \* Server.zone, set by NewServer
    ctxDone,     \* ctx.Done() is closed
    connClosed,  \* conn.Close() has run
    pc,          \* ListenAndServe: "bind", "reading" (in handleRequests), "returned"
    ret,         \* what ListenAndServe returned: "none" until it returns
    readErrs,    \* "Failed to read from UDP connection" log entries
    handlers,    \* one goroutine per datagram read, in the order of the reads
    outbox,      \* the datagrams WriteToUDP put on the wire, in order
    fnArgs,      \* arguments of a direct call of isDomainInZone
    fnRet        \* its result, <<>> before the call

vars == <<zone, ctxDone, connClosed, pc, ret, readErrs, handlers, outbox, fnArgs, fnRet>>
serverVars == <<zone, ctxDone, connClosed, pc, ret, readErrs, handlers, outbox>>

\* ------------------------------------------------------------ input sets
Names == LabelSeqsUpTo(MaxNameLabels)
\* cmd/loopy-dns/main.go accepts the empty zone and any zone ending in "."
Zones == {<<>>} \cup {NameString(l) : l \in LabelSeqsUpTo(MaxZoneLabels)}
Addrs == {"c1", "c2"}

Questions(names, types, classes) ==
    {[Name |-> n, Type |-> t, Class |-> c] : n \in names, t \in types, c \in classes}

QueryHeaders(ids, rds, qrs) ==
    {[ID |-> i, RecursionDesired |-> rd, Response |-> qr, OpCode |-> 0] :
        i \in ids, rd \in rds, qr \in qrs}

\* a datagram too short to hold a header
ShortDatagram ==
    [hdrOK |-> FALSE,
     Header |-> [ID |-> 0, RecursionDesired |-> FALSE, Response |-> FALSE, OpCode |-> 0],
     QDCount |-> 0,
     Questions |-> <<>>]

RECURSIVE QuestionSeqs(_, _, _)
QuestionSeqs(firstQs, moreQs, n) ==
    IF n = 0 THEN {<<>>}
    ELSE IF n = 1 THEN {<<>>} \cup {<<q>> : q \in firstQs}
    ELSE LET shorter == QuestionSeqs(firstQs, moreQs, n - 1)
         IN  shorter \cup {Append(s, q) : s \in {x \in shorter : Len(x) = n - 1}, q \in moreQs}

DatagramsOver(headers, firstQs, moreQs) ==
    {ShortDatagram} \cup
    {[hdrOK |-> TRUE, Header |-> h, QDCount |-> n, Questions |-> qs] :
        h \in headers, n \in 0..MaxQuestions,
        qs \in QuestionSeqs(firstQs, moreQs, MaxQuestions)}

\* the second and later questions of a multi-question message
MoreQuestions == Questions({<<<<"t">>, <<"z">>>>}, {TypeMX}, {ClassINET})

\* every datagram shape, for the handling of one datagram
AllDatagrams ==
    DatagramsOver(QueryHeaders({1, 2}, BOOLEAN, BOOLEAN),
                  Questions(Names, QTypes, QClasses), MoreQuestions)

\* a well-formed query with one question
Query(id, name, type) ==
    [hdrOK |-> TRUE,
     Header |-> [ID |-> id, RecursionDesired |-> TRUE, Response |-> FALSE, OpCode |-> 0],
     QDCount |-> 1,
     Questions |-> <<[Name |-> name, Type |-> type, Class |-> ClassINET]>>]

\* one datagram of each kind, for the interleavings of several handlers:
\* too short, no question, an A query for t.z., an A query for z.z. and an
\* MX query for t.z.
FewDatagrams ==
    {ShortDatagram,
     [Query(1, <<>>, TypeA) EXCEPT !.QDCount = 0, !.Questions = <<>>],
     Query(1, <<<<"t">>, <<"z">>>>, TypeA),
     Query(2, <<<<"z">>, <<"z">>>>, TypeA),
     Query(2, <<<<"t">>, <<"z">>>>, TypeMX)}

\* ------------------------------------------------------------------ Init
InitServer(zones) ==
    /\ zone \in zones
    /\ ctxDone = FALSE
    /\ connClosed = FALSE
    /\ pc = "bind"
    /\ ret = "none"
    /\ readErrs = 0
    /\ handlers = <<>>
    /\ outbox = <<>>

NoCall ==
    /\ fnArgs = <<>>
    /\ fnRet = <<>>

Init == InitServer({<<>>, <<"t", Dot, "z", Dot>>}) /\ NoCall

\* ------------------------------------------------------- ListenAndServe
\* ResolveUDPAddr / ListenUDP succeed, or ListenAndServe returns the error.
Bind(ok) ==
    /\ pc = "bind"
    /\ IF ok THEN pc' = "reading" /\ ret' = ret
             ELSE pc' = "returned" /\ ret' = "bindError"
    /\ UNCHANGED <<zone, ctxDone, connClosed, readErrs, handlers, outbox, fnArgs, fnRet>>

\* the caller cancels ctx
Cancel ==
    /\ ~ctxDone
    /\ ctxDone' = TRUE
    /\ UNCHANGED <<zone, connClosed, pc, ret, readErrs, handlers, outbox, fnArgs, fnRet>>

\* go func() { <-ctx.Done(); _ = conn.Close() }(), started after the bind
CloseConn ==
    /\ pc # "bind"
    /\ ret # "bindError"
    /\ ctxDone
    /\ ~connClosed
    /\ connClosed' = TRUE
    /\ UNCHANGED <<zone, ctxDone, pc, ret, readErrs, handlers, outbox, fnArgs, fnRet>>

\* ------------------------------------------------------- handleRequests
NewHandler(d, a) == [src |-> a, query |-> d, pc |-> "start", err |-> "none", response |-> <<>>]

\* the loop is in ReadFromUDP on the open socket
CanRead == pc = "reading" /\ ~connClosed

\* faulty variant: one buffer and one address shared by all iterations, so
\* a read overwrites what the handlers that have not parsed yet will read
ReceiveSharedBuffer(d, a) ==
    /\ CanRead
    /\ Len(handlers) < MaxDatagrams
    /\ handlers' = Append([i \in 1..Len(handlers) |->
                              IF handlers[i].pc = "start"
                              THEN [handlers[i] EXCEPT !.query = d, !.src = a]
                              ELSE handlers[i]],
                          NewHandler(d, a))
    /\ UNCHANGED <<zone, ctxDone, connClosed, pc, ret, readErrs, outbox, fnArgs, fnRet>>

\* faulty variant: handleQuery is called in the loop, without go: the read
\* returns only after the parse and the write of the datagram
ReceiveInline(d, a) ==
    /\ CanRead
    /\ Len(handlers) < MaxDatagrams
    /\ LET r == handleQueryBuild(zone, d)
           h == NewHandler(d, a)
       IN  IF r.err # "none"
           THEN /\ handlers' = Append(handlers, [h EXCEPT !.pc = "failed", !.err = r.err])
                /\ outbox' = outbox
           ELSE /\ handlers' = Append(handlers, [h EXCEPT !.pc = "done", !.response = r.msg])
                /\ outbox' = Append(outbox, [to |-> a, handler |-> Len(handlers) + 1,
                                             msg |-> r.msg[1]])
    /\ UNCHANGED <<zone, ctxDone, connClosed, pc, ret, readErrs, fnArgs, fnRet>>

\* ReadFromUDP returns a datagram and its source; go func() starts a handler
\* on the buffer and the address of this iteration.
Receive(d, a) ==
    /\ CanRead
    /\ Len(handlers) < MaxDatagrams
    /\ handlers' = Append(handlers, NewHandler(d, a))
    /\ UNCHANGED <<zone, ctxDone, connClosed, pc, ret, readErrs, outbox, fnArgs, fnRet>>

\* faulty variant: any read error ends the loop
ReadErrorEndsLoop ==
    /\ CanRead
    /\ readErrs < MaxReadErrors
    /\ readErrs' = readErrs + 1
    /\ pc' = "returned"
    /\ ret' = "readError"
    /\ UNCHANGED <<zone, ctxDone, connClosed, handlers, outbox, fnArgs, fnRet>>

\* ReadFromUDP fails with an error that is not net.ErrClosed: log, continue
ReadError ==
    /\ CanRead
    /\ readErrs < MaxReadErrors
    /\ readErrs' = readErrs + 1
    /\ UNCHANGED <<zone, ctxDone, connClosed, pc, ret, handlers, outbox, fnArgs, fnRet>>

\* faulty variant: the closed socket's error is returned like any other
ReadClosedReturnsError ==
    /\ pc = "reading"
    /\ connClosed
    /\ pc' = "returned"
    /\ ret' = "closed"
    /\ UNCHANGED <<zone, ctxDone, connClosed, readErrs, handlers, outbox, fnArgs, fnRet>>

\* ReadFromUDP fails with net.ErrClosed: return nil
ReadClosed ==
    /\ pc = "reading"
    /\ connClosed
    /\ pc' = "returned"
    /\ ret' = "nil"
    /\ UNCHANGED <<zone, ctxDone, connClosed, readErrs, handlers, outbox, fnArgs, fnRet>>

\* ---------------------------------------------------------- the handlers
\* handleQuery returned err: the goroutine logs it and ends.
\* faulty variant: the error ends the receive loop
HandlerErrorStopsLoop(i, kind) ==
    /\ handlers' = [handlers EXCEPT ![i].pc = "failed", ![i].err = kind]
    /\ pc' = "returned"
    /\ ret' = kind
    /\ UNCHANGED <<zone, ctxDone, connClosed, readErrs, outbox, fnArgs, fnRet>>

HandlerError(i, kind) ==
    /\ handlers' = [handlers EXCEPT ![i].pc = "failed", ![i].err = kind]
    /\ UNCHANGED <<zone, ctxDone, connClosed, pc, ret, readErrs, outbox, fnArgs, fnRet>>

\* handleQuery from Parser.Start to the end of buildResponse
HandlerBuild(i) ==
    /\ handlers[i].pc = "start"
    /\ LET r == handleQueryBuild(zone, handlers[i].query)
       IN  IF r.err # "none"
           THEN HandlerError(i, r.err)
           ELSE /\ handlers' = [handlers EXCEPT ![i].pc = "write", ![i].response = r.msg]
                /\ UNCHANGED <<zone, ctxDone, connClosed, pc, ret, readErrs, outbox, fnArgs, fnRet>>

\* faulty variant: the response goes to the source of the latest datagram read
WireDatagramLatestSrc(i) ==
    [to |-> handlers[Len(handlers)].src, handler |-> i, msg |-> handlers[i].response[1]]

WireDatagram(i) == [to |-> handlers[i].src, handler |-> i, msg |-> handlers[i].response[1]]

\* faulty variant: the write does not notice that the socket is closed
HandlerWriteIgnoresClose(i, sent) ==
    /\ handlers[i].pc = "write"
    /\ IF ~sent
       THEN HandlerError(i, "write")
       ELSE /\ outbox' = Append(outbox, WireDatagram(i))
            /\ handlers' = [handlers EXCEPT ![i].pc = "done"]
            /\ UNCHANGED <<zone, ctxDone, connClosed, pc, ret, readErrs, fnArgs, fnRet>>

\* conn.WriteToUDP(response, srcAddr): fails on a closed socket, and may
\* fail on an open one (sent = FALSE)
HandlerWrite(i, sent) ==
    /\ handlers[i].pc = "write"
    /\ IF connClosed \/ ~sent
       THEN HandlerError(i, "write")
       ELSE /\ outbox' = Append(outbox, WireDatagram(i))
            /\ handlers' = [handlers EXCEPT ![i].pc = "done"]
            /\ UNCHANGED <<zone, ctxDone, connClosed, pc, ret, readErrs, fnArgs, fnRet>>

\* ------------------------------------------------------------------ Spec
Next ==
    \/ \E ok \in BOOLEAN : Bind(ok)
    \/ Cancel
    \/ CloseConn
    \/ \E d \in FewDatagrams, a \in Addrs : Receive(d, a)
    \/ ReadError
    \/ ReadClosed
    \/ \E i \in 1..Len(handlers) : HandlerBuild(i)
    \/ \E i \in 1..Len(handlers), sent \in BOOLEAN : HandlerWrite(i, sent)

Spec == Init /\ [][Next]_vars

\* ShutdownSpec: the closer goroutine and the receive loop are scheduled.
ShutdownSpec == Spec /\ WF_vars(CloseConn) /\ WF_vars(ReadClosed)

\* QuerySpec: one datagram of any shape, under any zone main.go accepts.
InitQuery == InitServer(Zones) /\ NoCall

NextQuery ==
    \/ Bind(TRUE)
    \/ /\ handlers = <<>>
       /\ pc = "reading"
       /\ \E d \in AllDatagrams : Receive(d, "c1")
    \/ \E i \in 1..Len(handlers) : HandlerBuild(i)
    \/ \E i \in 1..Len(handlers), sent \in BOOLEAN : HandlerWrite(i, sent)

QuerySpec == InitQuery /\ [][NextQuery]_vars

\* ------------------------------------------- one datagram, any header bits
\* the header of a datagram with every field Parser.Start decodes
FlagHeaders ==
    {[ID |-> i, RecursionDesired |-> rd, Response |-> qr, OpCode |-> op,
      Authoritative |-> aa, Truncated |-> tc, RecursionAvailable |-> ra, RCode |-> rc] :
        i \in {1, 2}, rd \in BOOLEAN, qr \in BOOLEAN, op \in {0, 2},
        aa \in BOOLEAN, tc \in BOOLEAN, ra \in BOOLEAN,
        rc \in {RCodeSuccess, RCodeNameError}}

\* t.z. and z.z., with every type and class
FlagQuestions ==
    Questions({<<<<"t">>, <<"z">>>>, <<<<"z">>, <<"z">>>>}, QTypes, QClasses)

FlagDatagrams ==
    {[hdrOK |-> TRUE, Header |-> h, QDCount |-> n, Questions |-> qs] :
        h \in FlagHeaders, n \in 0..MaxQuestions,
        qs \in QuestionSeqs(FlagQuestions, MoreQuestions, MaxQuestions)}

NextFlag ==
    \/ Bind(TRUE)
    \/ /\ handlers = <<>>
       /\ pc = "reading"
       /\ \E d \in FlagDatagrams : Receive(d, "c1")
    \/ \E i \in 1..Len(handlers) : HandlerBuild(i)
    \/ \E i \in 1..Len(handlers), sent \in BOOLEAN : HandlerWrite(i, sent)

FlagSpec == Init /\ [][NextFlag]_vars

\* ZoneSpec: isDomainInZone called directly on any two strings.
NameStrings == StringsUpTo(MaxNameLen)
ZoneStrings == StringsUpTo(MaxZoneLen)

InitZone ==
    /\ InitServer({<<>>})
    /\ fnArgs \in NameStrings \X ZoneStrings
    /\ fnRet = <<>>

CallIsDomainInZone ==
    /\ fnRet = <<>>
    /\ fnRet' = <<isDomainInZone(fnArgs[1], fnArgs[2])>>
    /\ UNCHANGED <<serverVars, fnArgs>>

NextZone == CallIsDomainInZone

ZoneSpec == InitZone /\ [][NextZone]_vars

\* ======================================================== the properties
\* What the specification calls "in the zone": both names made fully
\* qualified, split into labels at the separator, and the zone's labels
\* equal to the rightmost labels of the name.
Fqdn(s) == IF HasDotSuffix(s) THEN s ELSE s \o <<Dot>>
LabelsOf(s) == Split(Fqdn(s))
IsSuffixOf(zl, nl) ==
    /\ Len(nl) >= Len(zl)
    /\ SubSeq(nl, Len(nl) - Len(zl) + 1, Len(nl)) = zl
InsideZone(name, z) == IsSuffixOf(LabelsOf(z), LabelsOf(name))

\* the datagram parses: the header decodes and a first question is read
Parses(d) == d.hdrOK /\ d.QDCount >= 1 /\ Len(d.Questions) >= 1
SingleQuestion(d) == Parses(d) /\ d.QDCount = 1
FirstQuestion(d) == d.Questions[1]
\* the name is inside the configured zone, or no zone is configured
ZoneAccepts(d) == zone = <<>> \/ InsideZone(NameString(FirstQuestion(d).Name), zone)
SentFor(i) == {k \in 1..Len(outbox) : outbox[k].handler = i}
Built(i) == handlers[i].pc # "start"

\* Handler i answers its datagram: it does not fail before the write, it
\* has built one response, and when its write succeeds that response is on
\* the wire.
Answers(i) ==
    /\ Built(i) => handlers[i].err \in {"none", "write"} /\ Len(handlers[i].response) = 1
    /\ handlers[i].pc = "done" => SentFor(i) # {}
\* the responses handler i has built or put on the wire
ResponsesOf(i) ==
    {handlers[i].response[k] : k \in 1..Len(handlers[i].response)}
        \cup {outbox[k].msg : k \in SentFor(i)}

EchoesID(d, m) == m.Header.Response /\ m.Header.ID = d.Header.ID

IsAQuery(d) == SingleQuestion(d) /\ FirstQuestion(d).Type = TypeA /\ ZoneAccepts(d)
IsLoopbackA(d, m) ==
    /\ EchoesID(d, m)
    /\ m.Header.RCode = RCodeSuccess
    /\ Len(m.Answers) = 1
    /\ m.Answers[1].Header.Type = TypeA
    /\ m.Answers[1].Body = <<127, 0, 0, 1>>

\* C1: every single-question A query whose name is inside the configured
\* zone (or with no zone configured) is answered with Response=true,
\* RCode=Success, the query's ID and exactly one answer, of type A with
\* value 127.0.0.1.
C1_AQueryGetsLoopback ==
    \A i \in 1..Len(handlers) :
        IsAQuery(handlers[i].query) =>
            /\ Answers(i)
            /\ \A m \in ResponsesOf(i) : IsLoopbackA(handlers[i].query, m)

C1_Witness ==
    \E k \in 1..Len(outbox) :
        /\ zone # <<>>
        /\ IsAQuery(handlers[outbox[k].handler].query)
        /\ Len(FirstQuestion(handlers[outbox[k].handler].query).Name) > Len(Split(zone)) - 1
        /\ outbox[k].msg.Answers[1].Body = <<127, 0, 0, 1>>

IsAAAAQuery(d) == SingleQuestion(d) /\ FirstQuestion(d).Type = TypeAAAA /\ ZoneAccepts(d)
IsLoopbackAAAA(d, m) ==
    /\ EchoesID(d, m)
    /\ m.Header.RCode = RCodeSuccess
    /\ Len(m.Answers) = 1
    /\ m.Answers[1].Header.Type = TypeAAAA
    /\ m.Answers[1].Body = <<0, 0, 0, 0, 0, 0, 0, 0, 0, 0, 0, 0, 0, 0, 0, 1>>

\* C2: every single-question AAAA query whose name is inside the configured
\* zone (or with no zone configured) is answered with Response=true,
\* RCode=Success, the query's ID and exactly one answer, of type AAAA with
\* the 16-byte value ::1.
C2_AAAAQueryGetsLoopback ==
    \A i \in 1..Len(handlers) :
        IsAAAAQuery(handlers[i].query) =>
            /\ Answers(i)
            /\ \A m \in ResponsesOf(i) : IsLoopbackAAAA(handlers[i].query, m)

C2_Witness ==
    \E k \in 1..Len(outbox) :
        /\ IsAAAAQuery(handlers[outbox[k].handler].query)
        /\ Len(outbox[k].msg.Answers[1].Body) = 16
        /\ outbox[k].msg.Answers[1].Body[16] = 1

IsOutOfZone(d) ==
    /\ Parses(d)
    /\ zone # <<>>
    /\ ~InsideZone(NameString(FirstQuestion(d).Name), zone)
IsNameError(d, m) ==
    /\ EchoesID(d, m)
    /\ m.Header.RCode = RCodeNameError
    /\ Len(m.Answers) = 0

\* C3: with a zone configured, every parseable query whose name is outside
\* that zone is answered with RCode=NameError, no answer, Response=true and
\* the query's ID.
C3_OutOfZoneGetsNameError ==
    \A i \in 1..Len(handlers) :
        IsOutOfZone(handlers[i].query) =>
            /\ Answers(i)
            /\ \A m \in ResponsesOf(i) : IsNameError(handlers[i].query, m)

IsOtherType(d) == SingleQuestion(d) /\ FirstQuestion(d).Type \notin {TypeA, TypeAAAA}
IsOtherTypeInZone(d) == IsOtherType(d) /\ ZoneAccepts(d)
IsNotImplemented(d, m) ==
    /\ m.Header.RCode = RCodeNotImplemented
    /\ Len(m.Answers) = 0

\* C4 as stated: every single-question query of a type other than A and
\* AAAA is answered with RCode=NotImplemented and no answer.
C4_OtherTypeGetsNotImplemented ==
    \A i \in 1..Len(handlers) :
        IsOtherType(handlers[i].query) =>
            /\ Answers(i)
            /\ \A m \in ResponsesOf(i) : IsNotImplemented(handlers[i].query, m)

\* C4 amended: every single-question query of a type other than A and AAAA
\* whose name is inside the configured zone (or with no zone configured) is
\* answered with RCode=NotImplemented and no answer.
C4_OtherTypeInZoneGetsNotImplemented ==
    \A i \in 1..Len(handlers) :
        IsOtherTypeInZone(handlers[i].query) =>
            /\ Answers(i)
            /\ \A m \in ResponsesOf(i) : IsNotImplemented(handlers[i].query, m)

C4_Witness ==
    \E k \in 1..Len(outbox) :
        /\ zone # <<>>
        /\ IsOtherTypeInZone(handlers[outbox[k].handler].query)
        /\ outbox[k].msg.Header.RCode = RCodeNotImplemented

IsRejectable(d) ==
    \/ ~d.hdrOK
    \/ d.QDCount = 0
    \/ d.QDCount > 1 /\ Len(d.Questions) > 1

\* C7: a datagram whose header does not decode, or that holds no question
\* or more than one question, makes handleQuery return an error, and no
\* response is written for it.
C7_MalformedGetsNoResponse ==
    \A i \in 1..Len(handlers) :
        IsRejectable(handlers[i].query) =>
            /\ Built(i) => handlers[i].pc = "failed" /\ handlers[i].err \in {"header", "question"}
            /\ SentFor(i) = {}

\* ------------------------------------------------ isDomainInZone, directly
Called == fnRet # <<>>
\* a zone as main.go accepts it, with at least one label and no empty label
IsZoneName(z) ==
    /\ HasDotSuffix(z)
    /\ Len(z) > 1
    /\ \A k \in 1..(Len(Split(z)) - 1) : Split(z)[k] # <<>>

\* C5: isDomainInZone is false for every name with fewer labels than the
\* zone (zone "t.z.", name "z.").
C5_ShorterNameNeverMatches ==
    (Called /\ IsZoneName(fnArgs[2]) /\ Len(LabelsOf(fnArgs[1])) < Len(LabelsOf(fnArgs[2])))
        => fnRet[1] = FALSE

\* C6: for a zone ending in "." and a name with at least as many labels,
\* isDomainInZone is true exactly when the zone's labels are the rightmost
\* labels of the name.
C6_LongerNameMatchesIffSuffix ==
    (Called /\ HasDotSuffix(fnArgs[2]) /\ Len(LabelsOf(fnArgs[1])) >= Len(LabelsOf(fnArgs[2])))
        => (fnRet[1] <=> InsideZone(fnArgs[1], fnArgs[2]))

C6_Witness ==
    /\ Called
    /\ IsZoneName(fnArgs[2])
    /\ Len(LabelsOf(fnArgs[2])) = 3
    /\ Len(LabelsOf(fnArgs[1])) = 4
    /\ LabelsOf(fnArgs[1])[1] # <<>>
    /\ fnRet[1] = TRUE

\* --------------------------------------------------------------- shutdown
InFlight(i) == handlers[i].pc \in {"start", "write"}

\* C8: after a successful bind, once ctx is cancelled the socket is closed
\* and ListenAndServe returns nil; it never returns an error after the bind,
\* whatever the handlers in flight.
C8_CancelLeadsToNilReturn ==
    /\ ((ctxDone /\ pc = "reading") ~> (connClosed /\ pc = "returned" /\ ret = "nil"))
    /\ [](ret \in {"none", "nil", "bindError"})
    /\ []((pc = "returned" /\ ret # "bindError") => (connClosed /\ ret = "nil"))

C8_Witness ==
    /\ pc = "returned"
    /\ ret = "nil"
    /\ \E i \in 1..Len(handlers) : InFlight(i)
    /\ \E i \in 1..Len(handlers) : handlers[i].pc = "done"

\* ----------------------------------------------------- failure isolation
Fails(i) == handlers[i].pc # "failed" /\ handlers'[i].pc = "failed"

\* C9: a step in which a handler fails changes nothing but that handler's
\* own state: the receive loop stays in its read on the open socket, the
\* socket stays as it is, nothing is put on the wire, and every other
\* handler keeps its datagram, its position and its response.
C9_HandlerFailureIsConfined ==
    [][\A i \in 1..Len(handlers) :
          Fails(i) =>
              /\ pc' = pc /\ ret' = ret /\ connClosed' = connClosed
              /\ CanRead => CanRead'
              /\ outbox' = outbox /\ readErrs' = readErrs
              /\ Len(handlers') = Len(handlers)
              /\ \A j \in 1..Len(handlers) : j # i => handlers'[j] = handlers[j]]_vars

C9_Witness ==
    /\ Len(handlers) >= 2
    /\ handlers[1].pc = "failed"
    /\ handlers[2].pc = "done"
    /\ Parses(handlers[2].query)
    /\ SentFor(2) # {}
    /\ pc = "reading"

\* C10: every datagram read gets at most one response, addressed to its
\* sender: none when the parse or the build fails, and one from each handler
\* that parsed its datagram and whose write the open socket took.
C10_AtMostOneResponseToSender ==
    \A i \in 1..Len(handlers) :
        LET h == handlers[i]
        IN  /\ Cardinality(SentFor(i)) <= 1
            /\ \A k \in SentFor(i) : outbox[k].to = h.src
            /\ ~Parses(h.query) => SentFor(i) = {}
            /\ (Built(i) /\ ~Parses(h.query)) => h.pc = "failed" /\ h.err \in {"header", "question"}
            /\ (Built(i) /\ Parses(h.query)) => h.err \in {"none", "write"}
            /\ h.pc = "done" => Cardinality(SentFor(i)) = 1
            /\ h.pc \in {"start", "write", "failed"} => SentFor(i) = {}

C10_Witness ==
    /\ Len(handlers) >= 2
    /\ handlers[1].src # handlers[2].src
    /\ handlers[1].pc = "done"
    /\ handlers[2].pc = "done"
    /\ Len(outbox) = 2
    /\ outbox[1].handler = 2
    /\ outbox[1].msg.Header.RCode = RCodeNameError
    /\ outbox[2].msg.Header.RCode = RCodeNotImplemented

\* ------------------------------------------------ zone filter, then type
\* C11: the zone filter comes before the type switch: a query whose name is
\* outside the configured zone gets RCode=NameError whatever its type, and
\* RCode=NotImplemented is given only to names inside the zone (or with no
\* zone configured).
C11_ZoneFilterBeforeTypeDispatch ==
    \A i \in 1..Len(handlers) :
        Parses(handlers[i].query) =>
            \A m \in ResponsesOf(i) :
                /\ (IsOutOfZone(handlers[i].query)
                      /\ FirstQuestion(handlers[i].query).Type \notin {TypeA, TypeAAAA})
                        => m.Header.RCode = RCodeNameError
                /\ m.Header.RCode = RCodeNotImplemented => ZoneAccepts(handlers[i].query)

\* C12: isDomainInZone gives the same result for a zone written without the
\* trailing "." as for the same zone written with it.
C12_ZoneTrailingDotIrrelevant ==
    (Called /\ fnArgs[2] # <<>> /\ ~HasDotSuffix(fnArgs[2]))
        => fnRet[1] = isDomainInZone(fnArgs[1], fnArgs[2] \o <<Dot>>)

\* ------------------------------------------------------------ read errors
\* C13: a read that fails with an error other than net.ErrClosed is logged
\* and nothing else: no handler is started for it, handleRequests does not
\* return, and the loop is in its next read.
C13_ReadErrorDoesNotEndLoop ==
    [][readErrs' # readErrs =>
          /\ readErrs' = readErrs + 1
          /\ handlers' = handlers
          /\ outbox' = outbox
          /\ pc = "reading" /\ pc' = "reading" /\ ret' = "none"
          /\ connClosed' = connClosed
          /\ CanRead']_vars

C13_Witness ==
    /\ readErrs >= 1
    /\ CanRead
    /\ ret = "none"
    /\ Len(handlers) >= 1
    /\ handlers[Len(handlers)].pc = "done"

\* ------------------------------------------------- per-handler data
\* C15: a handler's datagram and source address are its own: no step
\* changes the datagram or the address of a handler, or a response once it
\* is built, and every response on the wire carries the ID and the question
\* of its handler's datagram and goes to that datagram's source.
C15_HandlersShareNoQueryData ==
    /\ [][\A i \in 1..Len(handlers) :
            /\ handlers'[i].query = handlers[i].query
            /\ handlers'[i].src = handlers[i].src
            /\ handlers[i].response # <<>> => handlers'[i].response = handlers[i].response]_vars
    /\ [](\A k \in 1..Len(outbox) :
            LET h == handlers[outbox[k].handler]
            IN  /\ Parses(h.query)
                /\ outbox[k].to = h.src
                /\ outbox[k].msg = h.response[1]
                /\ outbox[k].msg.Header.ID = h.query.Header.ID
                /\ outbox[k].msg.Questions = <<FirstQuestion(h.query)>>)

C15_Witness ==
    /\ Len(outbox) = 2
    /\ outbox[1].handler = 2
    /\ outbox[2].handler = 1
    /\ handlers[1].src # handlers[2].src
    /\ handlers[1].query.Header.ID # handlers[2].query.Header.ID
    /\ outbox[1].msg.Header.ID = handlers[2].query.Header.ID
    /\ outbox[1].to = handlers[2].src

\* ------------------------------------------------- the loop does not wait
\* C16: the step that takes a datagram only starts its handler: after it
\* the handler has neither parsed nor written, nothing is on the wire for
\* it, no other handler has moved and the loop is back in its read; and a
\* loop in its read takes the next datagram whatever the handlers in
\* flight are doing.
C16_LoopNeverWaitsForHandler ==
    /\ [][Len(handlers') # Len(handlers) =>
            /\ Len(handlers') = Len(handlers) + 1
            /\ handlers'[Len(handlers')].pc = "start"
            /\ outbox' = outbox
            /\ \A j \in 1..Len(handlers) : handlers'[j] = handlers[j]
            /\ CanRead']_vars
    /\ []((CanRead /\ Len(handlers) < MaxDatagrams) => ENABLED Receive(ShortDatagram, "c1"))

C16_Witness ==
    /\ Len(handlers) = 2
    /\ handlers[1].pc = "write"
    /\ handlers[2].pc = "done"
    /\ SentFor(2) # {}
    /\ CanRead

\* --------------------------------------------- handlers after the close
\* C17: closing the socket leaves the handlers in flight as they are; once
\* the socket is closed nothing more is put on the wire; a handler that
\* fails on the closed socket changes only its own state; and
\* ListenAndServe, once bound, returns nothing but nil.
C17_HandlersOutliveClose ==
    /\ [][/\ connClosed => outbox' = outbox
          /\ (~connClosed /\ connClosed') => handlers' = handlers
          /\ \A i \in 1..Len(handlers) :
                (connClosed /\ Fails(i)) =>
                    /\ handlers[i].pc = "write" => handlers'[i].err = "write"
                    /\ pc' = pc /\ ret' = ret
                    /\ \A j \in 1..Len(handlers) : j # i => handlers'[j] = handlers[j]]_vars
    /\ []((pc = "returned" /\ ret # "bindError") => ret = "nil")

C17_Witness ==
    /\ connClosed
    /\ pc = "returned"
    /\ ret = "nil"
    /\ Len(handlers) = 2
    /\ handlers[1].pc = "failed" /\ handlers[1].err = "write"
    /\ handlers[2].pc = "write"
    /\ outbox = <<>>

\* ----------------------------------------------------- shape of a response
\* C18: every response built or sent has the datagram's first question,
\* and nothing else, as its question section (for a single-question query:
\* the query's question section); its RCode is Success, NameError or
\* NotImplemented; it has one answer if the RCode is Success and none
\* otherwise; and an answer has the question's name and type, which is A or
\* AAAA, class INET and TTL 300.
C18_ResponseShape ==
    \A i \in 1..Len(handlers) :
        \A m \in ResponsesOf(i) :
            LET d == handlers[i].query
            IN  /\ Parses(d)
                /\ m.Questions = <<FirstQuestion(d)>>
                /\ (SingleQuestion(d) /\ Len(d.Questions) = 1) => m.Questions = d.Questions
                /\ m.Header.RCode \in {RCodeSuccess, RCodeNameError, RCodeNotImplemented}
                /\ Len(m.Answers) = IF m.Header.RCode = RCodeSuccess THEN 1 ELSE 0
                /\ \A k \in 1..Len(m.Answers) :
                      /\ m.Answers[k].Header.Name = FirstQuestion(d).Name
                      /\ m.Answers[k].Header.Type = FirstQuestion(d).Type
                      /\ m.Answers[k].Header.Type \in {TypeA, TypeAAAA}
                      /\ m.Answers[k].Header.Class = ClassINET
                      /\ m.Answers[k].Header.TTL = 300

C18_Witness ==
    \E k \in 1..Len(outbox) :
        LET d == handlers[outbox[k].handler].query
            m == outbox[k].msg
        IN  /\ zone # <<>>
            /\ SingleQuestion(d)
            /\ FirstQuestion(d).Class = ClassCHAOS
            /\ FirstQuestion(d).Type = TypeAAAA
            /\ Len(FirstQuestion(d).Name) = MaxNameLabels
            /\ m.Header.RCode = RCodeSuccess
            /\ Len(m.Answers) = 1
            /\ m.Answers[1].Header.Class = ClassINET
            /\ m.Answers[1].Header.TTL = 300

\* ------------------------------------------------------ response header
\* C14: every response built or sent, whatever its RCode and whatever the
\* header of the datagram it answers, has the datagram's ID,
\* Response=true, OpCode=0, Authoritative=true, Truncated=false,
\* RecursionAvailable=false and the datagram's RecursionDesired.
C14_ResponseHeaderFields ==
    \A i \in 1..Len(handlers) :
        \A m \in ResponsesOf(i) :
            /\ m.Header.ID = handlers[i].query.Header.ID
            /\ m.Header.Response = TRUE
            /\ m.Header.OpCode = 0
            /\ m.Header.Authoritative = TRUE
            /\ m.Header.Truncated = FALSE
            /\ m.Header.RecursionAvailable = FALSE
            /\ m.Header.RecursionDesired = handlers[i].query.Header.RecursionDesired

C14_Witness ==
    \E k \in 1..Len(outbox) :
        LET hk == handlers[outbox[k].handler].query.Header
        IN  /\ hk.ID = 2 /\ hk.RecursionDesired
            /\ hk.OpCode = 2 /\ hk.Truncated /\ hk.RecursionAvailable /\ ~hk.Authoritative
            /\ outbox[k].msg.Header.ID = 2
            /\ outbox[k].msg.Header.RecursionDesired
            /\ outbox[k].msg.Header.OpCode = 0
            /\ outbox[k].msg.Header.RCode = RCodeNameError

\* ------------------------------------- what the response depends on
\* the datagram reduced to its ID, its RecursionDesired flag and its first
\* question
QueryCore(d) ==
    [hdrOK |-> TRUE,
     Header |-> [ID |-> d.Header.ID, RecursionDesired |-> d.Header.RecursionDesired,
                 Response |-> FALSE, OpCode |-> 0, Authoritative |-> FALSE,
                 Truncated |-> FALSE, RecursionAvailable |-> FALSE, RCode |-> RCodeSuccess],
     QDCount |-> 1,
     Questions |-> <<FirstQuestion(d)>>]
\* the same with the question's class set to c
CoreWithClass(d, c) ==
    [QueryCore(d) EXCEPT !.Questions = <<[FirstQuestion(d) EXCEPT !.Class = c]>>]

\* C19: a datagram with a first question is answered, unless the write
\* fails, exactly as the plain query with the same ID, RecursionDesired
\* flag and first question: the Response bit, the OpCode, the other header
\* flags, the header's RCode and what follows the first question change
\* nothing, and the RCode and the answers are those of the same question
\* in class INET. A datagram without a first question gets no response,
\* whatever its header.
C19_ResponseDependsOnCoreOnly ==
    \A i \in 1..Len(handlers) :
        LET d == handlers[i].query
            r == handleQueryBuild(zone, QueryCore(d))
            rIN == handleQueryBuild(zone, CoreWithClass(d, ClassINET))
        IN  Built(i) =>
              IF Parses(d)
              THEN /\ handlers[i].err \in {"none", "write"}
                   /\ r.err = "none" /\ rIN.err = "none"
                   /\ handlers[i].response = r.msg
                   /\ \A k \in SentFor(i) : outbox[k].msg = r.msg[1]
                   /\ handlers[i].response[1].Header.RCode = rIN.msg[1].Header.RCode
                   /\ handlers[i].response[1].Answers = rIN.msg[1].Answers
              ELSE /\ handlers[i].pc = "failed"
                   /\ SentFor(i) = {}

C19_Witness ==
    \E k \in 1..Len(outbox) :
        LET d == handlers[outbox[k].handler].query
        IN  /\ d.Header.Response
            /\ d.Header.OpCode = 2
            /\ d.Header.Authoritative /\ d.Header.Truncated /\ d.Header.RecursionAvailable
            /\ d.QDCount = MaxQuestions
            /\ FirstQuestion(d).Class = ClassCHAOS
            /\ FirstQuestion(d).Type = TypeA
            /\ zone # <<>>
            /\ outbox[k].msg.Header.RCode = RCodeSuccess
            /\ outbox[k].msg.Answers[1].Body = <<127, 0, 0, 1>>

====
